---- MODULE Spec2Model ----
(***************************************************************************)
(* Model of zig-build: dependency acquisition (src/src/deps.ts), process   *)
(* execution (src/src/proc.ts), target flag synthesis and the build        *)
(* orchestrator (src/src/index.ts).                                        *)
(*                                                                         *)
(* Strings are real strings; an argument list is a sequence of strings.    *)
(* A JavaScript `undefined` field is the distinguished string Undefined.   *)
(***************************************************************************)
EXTENDS Integers, Sequences, FiniteSets, TLC

\* ------------------------------------------------------------------------
\* Bounds of the model
\* ------------------------------------------------------------------------
MaxRuns == 2
MaxSources == 2

\* ------------------------------------------------------------------------
\* JavaScript values and string helpers
\* ------------------------------------------------------------------------
Undefined == "<undefined>"

\* the exit code of a process killed by a signal (JavaScript null)
NullCode == -1

\* JavaScript truthiness of an optional string field
Truthy(s) == s # Undefined /\ s # ""

\* String.prototype.includes
Includes(s, sub) ==
    \E i \in 1..(Len(s) - Len(sub) + 1) : SubSeq(s, i, i + Len(sub) - 1) = sub

\* s.split("-")[0]: the text before the first dash (the whole string if none)
FirstPart(s) ==
    LET dashes == {i \in 1..Len(s) : SubSeq(s, i, i) = "-"}
    IN IF dashes = {} THEN s
       ELSE SubSeq(s, 1, (CHOOSE i \in dashes : \A j \in dashes : i <= j) - 1)

\* Array.prototype.slice(from, -n) with 0-based from
SliceNeg(s, from, n) ==
    IF n = 0 THEN <<>> ELSE SubSeq(s, from + 1, Len(s) - n)

\* s.map(f) over a sequence
RECURSIVE Prefixed(_, _)
Prefixed(p, s) ==
    IF s = <<>> THEN <<>> ELSE <<p \o Head(s)>> \o Prefixed(p, Tail(s))

\* values of the defines record: boolean | string | number
BoolV(b) == [t |-> "boolean", b |-> b]
StrV(s) == [t |-> "string", s |-> s]
NumV(n) == [t |-> "number", n |-> n]

\* path.join(dir, name)
PathJoin(dir, name) == dir \o "/" \o name

\* ------------------------------------------------------------------------
\* src/src/index.ts: buildOne, the flag synthesis of one target
\* ------------------------------------------------------------------------
\* headers.def_paths.node_api_def of the node-api-headers package
NodeApiDef == "node_api.def"

\* lines 188-189: the front end and the raw compiler name
IsCpp(std) == IF std = Undefined THEN TRUE ELSE Includes(std, "++")
Lang(std) == IF IsCpp(std) THEN "c++" ELSE "cc"
Clang(std) == IF IsCpp(std) THEN "clang++" ELSE "clang"

\* lines 182-186: the triple with the glibc version appended
Triple(target) ==
    IF Truthy(target.target) /\ Truthy(target.glibc)
    THEN target.target \o "." \o target.glibc
    ELSE target.target

\* line 192: base flags, always the same
BaseFlags(target) ==
    <<Lang(target.std), "-o", target.output, "-fPIC", "-Wl,--as-needed">>

\* lines 194-199
TripleFlags(target) ==
    (IF Truthy(Triple(target)) THEN <<"-target", Triple(target)>> ELSE <<>>)
    \o (IF Truthy(target.cpu) THEN <<"-mcpu", target.cpu>> ELSE <<>>)

\* line 201: target.type ?? "shared"
OutputType(target) == IF target.type = Undefined THEN "shared" ELSE target.type

\* mutant: the host platform is not consulted when the triple is absent
IsWindowsShared_TripleOnly(target, platform) ==
    /\ OutputType(target) = "shared"
    /\ Triple(target) # Undefined
    /\ Includes(Triple(target), "windows")

\* line 211: the Windows branch of a shared library
IsWindowsShared(target, platform) ==
    /\ OutputType(target) = "shared"
    /\ \/ (Triple(target) # Undefined /\ Includes(Triple(target), "windows"))
       \/ (~Truthy(Triple(target)) /\ platform = "win32")

\* line 250: the macOS branch of a shared library
IsMacosShared(target, platform) ==
    /\ OutputType(target) = "shared"
    /\ ~IsWindowsShared(target, platform)
    /\ \/ (Triple(target) # Undefined /\ Includes(Triple(target), "macos"))
       \/ (~Truthy(Triple(target)) /\ platform = "darwin")

\* mutant: an unrecognized first segment falls back to i386 and never throws
Machine_Default(triple) ==
    LET cpu == FirstPart(triple)
    IN CASE cpu = "x86_64" -> "i386:x86-64"
         [] cpu = "aarch64" -> "arm64"
         [] OTHER -> "i386"

\* lines 220-243: the dlltool machine name; Undefined stands for the throw
Machine(triple) ==
    LET cpu == FirstPart(triple)
    IN CASE cpu = "x86_64" -> "i386:x86-64"
         [] cpu = "aarch64" -> "arm64"
         [] cpu \in {"x86", "i386", "i486", "i586", "i686"} -> "i386"
         [] OTHER -> Undefined

\* lines 216-243: buildOne throws "Unsupported Windows target"
Throws(target, platform) ==
    /\ IsWindowsShared(target, platform)
    /\ Truthy(Triple(target))
    /\ Machine(Triple(target)) = Undefined

\* lines 212-246: the argument list of the import-library tool
DlltoolFlags(target, node) ==
    <<"dlltool", "-d", NodeApiDef, "-l", PathJoin(node, "node.lib")>>
    \o (IF Truthy(Triple(target))
        THEN <<"-m", Machine(Triple(target))>> ELSE <<>>)

\* lines 201-256: output kind flags
TypeFlags(target, platform) ==
    CASE OutputType(target) \in {"bin", "static"} -> <<"-static">>
      [] OutputType(target) = "shared" ->
            <<"-shared">>
            \o (IF IsMacosShared(target, platform)
                THEN <<"-Wl,-undefined,dynamic_lookup">> ELSE <<>>)
      [] OTHER -> <<>>

\* line 249: target.sources.push(lib)
SourcesAfter(target, node, platform) ==
    IF IsWindowsShared(target, platform)
    THEN Append(target.sources, PathJoin(node, "node.lib"))
    ELSE target.sources

\* lines 258-271: optimisation flags, target.mode ?? "fast"
ModeFlags(target) ==
    LET mode == IF target.mode = Undefined THEN "fast" ELSE target.mode
    IN CASE mode = "fast" -> <<"-O2">>
         [] mode = "small" -> <<"-Os">>
         [] OTHER -> <<>>

\* lines 273-278
StdFlags(target) ==
    (IF Truthy(target.std) THEN <<"-std=" \o target.std>> ELSE <<>>)
    \o (IF target.exceptions = FALSE THEN <<"-fno-exceptions">> ELSE <<>>)

\* lines 280-287
IncludeFlags(target, node, napi) ==
    <<"-I" \o node>>
    \o (IF Truthy(napi) THEN <<"-I" \o napi>> ELSE <<>>)
    \o Prefixed("-I", target.include)

\* lines 289-294
LibraryFlags(target) ==
    Prefixed("-l", target.libraries) \o Prefixed("-L", target.librariesSearch)

\* { [k]: v, ...defs }: k comes first, a user entry of the same name wins
RECURSIVE Without(_, _)
Without(defs, k) ==
    IF defs = <<>> THEN <<>>
    ELSE (IF Head(defs).n = k THEN <<>> ELSE <<Head(defs)>>)
         \o Without(Tail(defs), k)

RECURSIVE Lookup(_, _, _)
Lookup(defs, k, dflt) ==
    IF defs = <<>> THEN dflt
    ELSE LET rest == Lookup(Tail(defs), k, dflt)
         IN IF \E i \in 1..Len(Tail(defs)) : Tail(defs)[i].n = k THEN rest
            ELSE IF Head(defs).n = k THEN Head(defs).v ELSE rest

\* mutant: { ...defs, [k]: v }, the synthesized value overrides the user's
WithDefault_Override(k, v, defs) ==
    <<[n |-> k, v |-> v]>> \o Without(defs, k)

WithDefault(k, v, defs) ==
    <<[n |-> k, v |-> Lookup(defs, k, v)]>> \o Without(defs, k)

\* lines 296-309: target.defines after the defaults are merged in
DefinesAfter(target) ==
    LET d0 == target.defines
        d1 == IF target.napiVersion # 0
              THEN WithDefault("NAPI_VERSION", NumV(target.napiVersion), d0)
              ELSE d0
        d2 == IF target.exceptions = FALSE
              THEN WithDefault("NAPI_DISABLE_CPP_EXCEPTIONS", BoolV(TRUE),
                     WithDefault("NODE_ADDON_API_ENABLE_MAYBE", BoolV(TRUE), d1))
              ELSE d1
    IN d2

\* lines 310-316
RECURSIVE DefineFlags(_)
DefineFlags(defs) ==
    IF defs = <<>> THEN <<>>
    ELSE LET d == Head(defs)
             tok == CASE d.v.t = "boolean" ->
                            IF d.v.b THEN <<"-D" \o d.n>> ELSE <<>>
                      [] d.v.t = "string" -> <<"-D" \o d.n \o "=" \o d.v.s>>
                      [] d.v.t = "number" ->
                            <<"-D" \o d.n \o "=" \o ToString(d.v.n)>>
                      [] OTHER -> <<>>
         IN tok \o DefineFlags(Tail(defs))

\* lines 318-332
ExtraFlags(target) ==
    Prefixed("-", target.frameworks)
    \o Prefixed("-F", target.frameworksSearch)
    \o Prefixed("-Wl,-rpath,", target.rpath)

\* lines 334-339
TailFlags(target, sources) ==
    (IF target.verbose THEN <<"-v">> ELSE <<>>) \o target.cflags \o sources

\* mutant: the optimisation flag is pushed before the output kind flag
Flags_OptFirst(target, node, napi, platform) ==
    BaseFlags(target)
    \o TripleFlags(target)
    \o ModeFlags(target)
    \o TypeFlags(target, platform)
    \o StdFlags(target)
    \o IncludeFlags(target, node, napi)
    \o LibraryFlags(target)
    \o DefineFlags(DefinesAfter(target))
    \o ExtraFlags(target)
    \o TailFlags(target, SourcesAfter(target, node, platform))

\* lines 191-339: the argument list of the main compile/link invocation
Flags(target, node, napi, platform) ==
    BaseFlags(target)
    \o TripleFlags(target)
    \o TypeFlags(target, platform)
    \o ModeFlags(target)
    \o StdFlags(target)
    \o IncludeFlags(target, node, napi)
    \o LibraryFlags(target)
    \o DefineFlags(DefinesAfter(target))
    \o ExtraFlags(target)
    \o TailFlags(target, SourcesAfter(target, node, platform))

\* line 345: the arguments of a compilation database entry
DbArguments(clang, flags, nsources) ==
    <<clang>> \o SliceNeg(flags, 1, nsources)

\* lines 343-347: one compilation database entry per element of target.sources
RECURSIVE DbEntries(_, _, _)
DbEntries(cwd, arguments, sources) ==
    IF sources = <<>> THEN <<>>
    ELSE <<[directory |-> cwd, arguments |-> arguments, file |-> Head(sources)]>>
         \o DbEntries(cwd, arguments, Tail(sources))

\* lines 172-350: buildOne.  threw: the call threw; hasAux: the task starts
\* with the dlltool invocation; target: the caller's object after the call
buildOne(target, cwd, node, napi, platform) ==
    IF Throws(target, platform)
    THEN [threw |-> TRUE, hasAux |-> FALSE, aux |-> <<>>, flags |-> <<>>,
          db |-> <<>>, target |-> target]
    ELSE LET sources == SourcesAfter(target, node, platform)
             flags == Flags(target, node, napi, platform)
         IN [threw |-> FALSE,
             hasAux |-> IsWindowsShared(target, platform),
             aux |-> IF IsWindowsShared(target, platform)
                     THEN DlltoolFlags(target, node) ELSE <<>>,
             flags |-> flags,
             db |-> DbEntries(cwd,
                        DbArguments(Clang(target.std), flags, Len(sources)),
                        sources),
             target |-> [target EXCEPT !.sources = sources,
                                       !.defines = DefinesAfter(target)]]

\* lines 163-170: eq, deep strict equality
eq(l, r) == l = r

\* mutant: findLastIndex instead of findIndex
FindIndex_Last(db, l) ==
    IF \E i \in 1..Len(db) : eq(l, db[i])
    THEN CHOOSE i \in 1..Len(db) :
            eq(l, db[i]) /\ \A j \in (i + 1)..Len(db) : ~eq(l, db[j])
    ELSE 0

\* db.findIndex((r) => eq(l, r)), 1-based; 0 when absent
FindIndex(db, l) ==
    IF \E i \in 1..Len(db) : eq(l, db[i])
    THEN CHOOSE i \in 1..Len(db) :
            eq(l, db[i]) /\ \A j \in 1..(i - 1) : ~eq(l, db[j])
    ELSE 0

\* line 397: db.filter((l, idx) => db.findIndex((r) => eq(l, r)) === idx)
RECURSIVE UniqueFrom(_, _)
UniqueFrom(db, idx) ==
    IF idx > Len(db) THEN <<>>
    ELSE (IF FindIndex(db, db[idx]) = idx THEN <<db[idx]>> ELSE <<>>)
         \o UniqueFrom(db, idx + 1)

Unique(db) == UniqueFrom(db, 1)

\* ------------------------------------------------------------------------
\* src/src/deps.ts: the download table and the cache paths
\* ------------------------------------------------------------------------
ZIG_VERSION == "0.10.1"

\* lines 33-47: ZIGS[platform]?.[arch], Undefined when there is no entry
ZigUrl(h) ==
    LET base == "https://ziglang.org/download/" \o ZIG_VERSION \o "/zig-"
        cpu == IF h.arch = "x64" THEN "x86_64" ELSE "aarch64"
    IN IF h.arch \notin {"x64", "arm64"} THEN Undefined
       ELSE CASE h.platform = "linux" ->
                    base \o "linux-" \o cpu \o "-" \o ZIG_VERSION \o ".tar.xz"
              [] h.platform = "darwin" ->
                    base \o "macos-" \o cpu \o "-" \o ZIG_VERSION \o ".tar.xz"
              [] h.platform = "win32" ->
                    base \o "windows-" \o cpu \o "-" \o ZIG_VERSION \o ".zip"
              [] OTHER -> Undefined

\* line 94: report.header.release.headersUrl
HeadersUrl == "https://nodejs.org/download/release/node-headers.tar.gz"

\* lines 49-51, 87-88, 113-114
DOWNLOAD_DIR == "~/.zig-build"
IncludePath == PathJoin(PathJoin(DOWNLOAD_DIR, "node"), "v20/include/node")
BinaryPath(h) ==
    PathJoin(PathJoin(PathJoin(DOWNLOAD_DIR, "zig"), ZIG_VERSION),
             IF h.platform = "win32" THEN "zig.exe" ELSE "zig")

\* mutant: a host without a table entry falls back to the linux download
UrlOf_Fallback(who, h) ==
    IF who = "zig"
    THEN (IF ZigUrl(h) = Undefined
          THEN ZigUrl([platform |-> "linux", arch |-> "x64"]) ELSE ZigUrl(h))
    ELSE HeadersUrl

\* lines 94, 120-123: the URL an acquisition downloads from after a cache
\* miss; Undefined makes fetchZig throw "unsupported platform"
UrlOf(who, h) == IF who = "zig" THEN ZigUrl(h) ELSE HeadersUrl

\* mutant: the existence test is ignored and everything is downloaded again
CacheHit_Never(exists) == FALSE

\* lines 90-92, 116-118: the acquisition returns at once on a cache hit
CacheHit(exists) == exists

\* mutant: a falsy exit code resolves, so a signal kill counts as success
Resolves_Falsy(code) == code = 0 \/ code = NullCode

\* src/src/proc.ts lines 23-29: exit code 0 resolves, anything else rejects
Resolves(code) == code = 0

\* ------------------------------------------------------------------------
\* State
\* ------------------------------------------------------------------------
VARIABLES
    host,       \* [platform, arch] of the running process
    napi,       \* include path of node-addon-api, Undefined if not installed
    cache,      \* [zig, node]: whether binaryPath / includePath exist
    given,      \* the targets as the caller first passed them
    targets,    \* Object.entries(targets): <<[name, cfg]>>, cfg is mutable
    options,    \* [compilationDatabase]: "<false>", "<true>" or a file name
    run,        \* number of build() calls made so far
    build,      \* [state, kind, code]: the promise returned by build()
    fetch,      \* who -> [pc, err]: fetchNodeHeaders / fetchZig
    pipe,       \* per target: [stage, code]: its task chain and last exit code
    built,      \* per target: what buildOne returned in this call
    db,         \* the merged compilation database of this call
    events,     \* HTTP requests, spawns, exits and writes of this call
    written,    \* fs.writeFile calls of this call: <<[path, content]>>
    hist,       \* [cacheAtStart, prev]: cache and outcome when build() began
    io          \* one exec() call: its process's streams, buffers and promise

vars == <<host, napi, cache, given, targets, options, run, build, fetch,
          pipe, built, db, events, written, hist, io>>

Cwd == "/w"
CdbFalse == "<false>"
CdbTrue == "<true>"
ExitCodes == {0, 1, NullCode}
Who == {"node", "zig"}

Ev(e, who, arg, code) == [e |-> e, who |-> who, arg |-> arg, code |-> code]
Idle == [state |-> "idle", kind |-> "", code |-> 0]
Rejected(kind, code) == [state |-> "rejected", kind |-> kind, code |-> code]
Unbuilt == [stage |-> "unbuilt", code |-> 0]
NoResult == [threw |-> FALSE, hasAux |-> FALSE, aux |-> <<>>, flags |-> <<>>,
             db |-> <<>>]

RECURSIVE Concat(_)
Concat(ss) == IF ss = <<>> THEN <<>> ELSE Head(ss) \o Concat(Tail(ss))

\* ------------------------------------------------------------------------
\* proc.ts lines 35-47: bytes, text and lines
\* ------------------------------------------------------------------------
\* Bytes are "a", "b" (ASCII letters), "\n", "C3" and "A9" (the two bytes
\* of U+00E9) and "EFBFBD" (the three bytes of U+FFFD, kept as one unit).
\* Characters are "a", "b", "\n", "U+00E9" and "U+FFFD".
Streams == {"stdout", "stderr"}

\* proc.ts lines 38, 46: buffer.toString("utf8"); a byte that does not
\* begin or continue a complete sequence decodes to U+FFFD
RECURSIVE Decode(_)
Decode(bytes) ==
    IF bytes = <<>> THEN <<>>
    ELSE IF Head(bytes) = "C3" /\ Len(bytes) >= 2 /\ bytes[2] = "A9"
    THEN <<"U+00E9">> \o Decode(Tail(Tail(bytes)))
    ELSE IF Head(bytes) \in {"C3", "A9", "EFBFBD"}
    THEN <<"U+FFFD">> \o Decode(Tail(bytes))
    ELSE <<Head(bytes)>> \o Decode(Tail(bytes))

\* proc.ts line 39: Buffer.from(text, "utf8")
RECURSIVE Encode(_)
Encode(text) ==
    IF text = <<>> THEN <<>>
    ELSE (CASE Head(text) = "U+00E9" -> <<"C3", "A9">>
            [] Head(text) = "U+FFFD" -> <<"EFBFBD">>
            [] OTHER -> <<Head(text)>>)
         \o Encode(Tail(text))

\* proc.ts line 38: text.split("\n"); never empty
RECURSIVE Split(_)
Split(text) ==
    IF \A k \in 1..Len(text) : text[k] # "\n" THEN <<text>>
    ELSE LET k == CHOOSE k \in 1..Len(text) :
                     text[k] = "\n" /\ \A m \in 1..(k - 1) : text[m] # "\n"
         IN <<SubSeq(text, 1, k - 1)>> \o Split(SubSeq(text, k + 1, Len(text)))

\* proc.ts lines 36-43: the "data" handler of one stream on one chunk:
\* the new buffer and the lines passed to the logger
OnData(buffer, data) ==
    LET lines == Split(Decode(buffer \o data))
    IN [buffer |-> Encode(lines[Len(lines)]),
        logged |-> SubSeq(lines, 1, Len(lines) - 1)]

\* proc.ts line 46: the "end" handler logs what the buffer holds
OnEnd(buffer) == Decode(buffer)

NoExec == [content |-> [s \in Streams |-> <<>>],
           pending |-> [s \in Streams |-> <<>>],
           buffer |-> [s \in Streams |-> <<>>],
           ended |-> [s \in Streams |-> TRUE],
           log |-> <<>>,
           promise |-> "none", code |-> 0]

\* ------------------------------------------------------------------------
\* Target configurations
\* ------------------------------------------------------------------------
Base == [target |-> Undefined, glibc |-> Undefined, cpu |-> Undefined,
         output |-> "x.node", type |-> Undefined, mode |-> Undefined,
         sources |-> <<"a.cc">>, include |-> <<>>, libraries |-> <<>>,
         librariesSearch |-> <<>>, napiVersion |-> 0, defines |-> <<>>,
         std |-> Undefined, exceptions |-> TRUE, cflags |-> <<>>,
         verbose |-> FALSE, rpath |-> <<>>, frameworks |-> <<>>,
         frameworksSearch |-> <<>>]

TLinux == [Base EXCEPT !.target = "x86_64-linux-gnu",
                       !.sources = <<"a.cc", "b.cc">>, !.std = "c++20",
                       !.mode = "small", !.include = <<"dir">>,
                       !.rpath = <<"runtime">>,
                       !.defines = <<[n |-> "TEST_VALUE", v |-> StrV("baz")]>>]
TLinux2 == [TLinux EXCEPT !.sources = <<"b.cc", "c.cc", "b.cc">>]
TStatic == [Base EXCEPT !.target = "aarch64-linux-musl", !.type = "static",
                        !.output = "x.a", !.exceptions = FALSE,
                        !.libraries = <<"lib">>, !.librariesSearch = <<"dir">>,
                        !.defines = <<[n |-> "NDEBUG", v |-> BoolV(TRUE)]>>]
TWin == [Base EXCEPT !.target = "x86_64-windows", !.output = "x.dll"]
TWinArm == [Base EXCEPT !.target = "aarch64-windows", !.output = "y.dll"]
TBad == [Base EXCEPT !.target = "riscv64-windows", !.output = "r.dll"]
THost == Base

E(name, cfg) == [name |-> name, cfg |-> cfg]

TargetMaps ==
    { <<E("a", TLinux), E("b", TLinux2)>>,
      <<E("a", TWin), E("b", TStatic)>>,
      <<E("a", TStatic), E("b", TWin)>>,
      <<E("a", THost), E("b", TBad)>>,
      <<E("a", TBad), E("b", TLinux)>>,
      <<E("a", TWin), E("b", TWinArm)>>,
      <<E("a", TWin)>>,
      <<>> }

Hosts == { [platform |-> "linux", arch |-> "x64"],
           [platform |-> "win32", arch |-> "arm64"],
           [platform |-> "freebsd", arch |-> "x64"] }

\* ------------------------------------------------------------------------
\* Helpers of the orchestrator
\* ------------------------------------------------------------------------
\* mutant: the first acquisition to complete lets the build go on
DepsReady_Any(f) == f["node"].pc = "done" \/ f["zig"].pc = "done"

\* deps.ts line 139, index.ts line 364: Promise.all of both acquisitions
DepsReady(f) == f["node"].pc = "done" /\ f["zig"].pc = "done"

\* mutant: the chain starts with the main compile even when there is an
\* import-library step
FirstStage_SkipAux(r) == "main"

\* index.ts lines 248, 341: the first process of a target's task chain
FirstStage(r) == IF r.hasAux THEN "aux" ELSE "main"

\* mutant: the chain goes on to the main compile whatever the
\* import-library process returned
NextStage_Ignore(stage, code) ==
    IF stage = "aux" THEN "main"
    ELSE IF ~Resolves(code) THEN "failed" ELSE "done"

\* index.ts lines 248, 341: what the chain does when its process exits
NextStage(stage, code) ==
    IF ~Resolves(code) THEN "failed"
    ELSE IF stage = "aux" THEN "main" ELSE "done"

\* index.ts lines 391-394: the name of the database file, "" when not written
DbName(cdb) ==
    IF cdb = CdbFalse \/ cdb = "" THEN ""
    ELSE IF cdb = CdbTrue THEN "compile_commands.json" ELSE cdb

\* mutant: build() continues as soon as one task resolved
AllDone_Any(p) == \E i \in 1..Len(p) : p[i].stage = "done"

\* index.ts line 389: await Promise.all(tasks) continues only when every
\* task resolved
AllDone(p) == \A i \in 1..Len(p) : p[i].stage = "done"

\* nothing of the previous call is still in flight
Quiescent ==
    /\ build.state \in {"idle", "resolved", "rejected"}
    /\ \A w \in Who : fetch[w].pc \in {"idle", "done", "failed"}
    /\ \A i \in 1..Len(pipe) : pipe[i].stage \in {"unbuilt", "done", "failed"}

\* a rejection reaches build() only while its promise is still pending
RejectIf(pending, kind, code) ==
    IF build.state = pending THEN Rejected(kind, code) ELSE build

\* ------------------------------------------------------------------------
\* Init: before build() is called
\* ------------------------------------------------------------------------
Fresh(ts) ==
    /\ given = ts
    /\ targets = ts
    /\ run = 0
    /\ build = Idle
    /\ fetch = [w \in Who |-> [pc |-> "idle", err |-> ""]]
    /\ pipe = [i \in 1..Len(ts) |-> Unbuilt]
    /\ built = [i \in 1..Len(ts) |-> NoResult]
    /\ db = <<>>
    /\ events = <<>>
    /\ written = <<>>
    /\ io = NoExec

Init ==
    /\ host \in Hosts
    /\ napi \in {Undefined}
    /\ cache \in [zig : BOOLEAN, node : BOOLEAN]
    /\ options \in [compilationDatabase : {CdbFalse, CdbTrue, "db.json"}]
    /\ \E ts \in TargetMaps : Fresh(ts)
    /\ hist = [cacheAtStart |-> cache, prev |-> "idle"]

\* ------------------------------------------------------------------------
\* index.ts lines 359-364, deps.ts lines 136-139, 80-90, 106-116:
\* build() is called; both acquisitions start and wait for fs.stat
\* ------------------------------------------------------------------------
Build ==
    /\ Quiescent
    /\ run < MaxRuns
    /\ run' = run + 1
    /\ build' = [state |-> "fetching", kind |-> "", code |-> 0]
    /\ fetch' = [w \in Who |-> [pc |-> "stat", err |-> ""]]
    /\ pipe' = [i \in 1..Len(targets) |-> Unbuilt]
    /\ built' = [i \in 1..Len(targets) |-> NoResult]
    /\ db' = <<>>
    /\ events' = <<>>
    /\ written' = <<>>
    /\ hist' = [cacheAtStart |-> cache, prev |-> build.state]
    /\ UNCHANGED <<host, io, napi, cache, given, targets, options>>

\* deps.ts lines 90-95, 116-125: fs.stat answered; return on a cache hit,
\* otherwise look up the URL (fetchZig throws without one) and issue the GET
Stat(w) ==
    /\ fetch[w].pc = "stat"
    /\ IF CacheHit(cache[w])
       THEN /\ fetch' = [fetch EXCEPT ![w].pc = "done"]
            /\ UNCHANGED <<events, build>>
       ELSE IF UrlOf(w, host) = Undefined
       THEN /\ fetch' = [fetch EXCEPT ![w] =
                            [pc |-> "failed", err |-> "unsupported platform"]]
            /\ build' = RejectIf("fetching", "unsupported platform", 0)
            /\ UNCHANGED events
       ELSE /\ fetch' = [fetch EXCEPT ![w].pc = "get"]
            /\ events' = Append(events, Ev("http", w, UrlOf(w, host), 0))
            /\ UNCHANGED build
    /\ UNCHANGED <<host, io, napi, cache, given, targets, options, run, pipe,
                   built, db, written, hist>>

\* deps.ts lines 62-72: the response arrives; a non-2xx status rejects
Response(w, ok) ==
    /\ fetch[w].pc = "get"
    /\ IF ok
       THEN /\ fetch' = [fetch EXCEPT ![w].pc = "mkdir"]
            /\ UNCHANGED build
       ELSE /\ fetch' = [fetch EXCEPT ![w] =
                            [pc |-> "failed", err |-> "response"]]
            /\ build' = RejectIf("fetching", "response", 0)
    /\ UNCHANGED <<host, io, napi, cache, given, targets, options, run, pipe,
                   built, db, events, written, hist>>

\* deps.ts lines 96-101, 126-131: the directory exists, tar is spawned
Mkdir(w) ==
    /\ fetch[w].pc = "mkdir"
    /\ fetch' = [fetch EXCEPT ![w].pc = "tar"]
    /\ events' = Append(events, Ev("spawn", w, "tar", 0))
    /\ UNCHANGED <<host, io, napi, cache, given, targets, options, run, build,
                   pipe, built, db, written, hist>>

\* deps.ts lines 98-103, 128-133 and proc.ts lines 23-29: tar exits.  A
\* clean exit leaves the extracted path in the cache; a failed extraction
\* may or may not have created it
TarExit(w, code, partial) ==
    /\ fetch[w].pc = "tar"
    /\ events' = Append(events, Ev("exit", w, "tar", code))
    /\ IF Resolves(code)
       THEN /\ fetch' = [fetch EXCEPT ![w].pc = "done"]
            /\ cache' = [cache EXCEPT ![w] = TRUE]
            /\ UNCHANGED build
       ELSE /\ fetch' = [fetch EXCEPT ![w] = [pc |-> "failed", err |-> "exit"]]
            /\ cache' = [cache EXCEPT ![w] = partial]
            /\ build' = RejectIf("fetching", "exit", code)
    /\ UNCHANGED <<host, io, napi, given, targets, options, run, pipe, built, db,
                   written, hist>>

\* index.ts lines 389-399: every task resolved; write the database if asked
Finish(cdb, d) ==
    IF DbName(cdb) = ""
    THEN [b |-> [state |-> "resolved", kind |-> "", code |-> 0], w |-> <<>>]
    ELSE [b |-> [state |-> "writing", kind |-> "", code |-> 0],
          w |-> <<[path |-> PathJoin(Cwd, DbName(cdb)), content |-> Unique(d)]>>]

\* deps.ts lines 142-145 and index.ts lines 364-389: node-addon-api is
\* resolved, build() runs buildOne over the targets in order (stopping at a
\* throw) and the tasks created so far spawn their first process
Synthesize ==
    /\ build.state = "fetching"
    /\ DepsReady(fetch)
    /\ LET n == Len(targets)
           r == [i \in 1..n |->
                    buildOne(targets[i].cfg, Cwd, IncludePath, napi,
                             host.platform)]
           thrown == {i \in 1..n : r[i].threw}
           stop == IF thrown = {} THEN n + 1
                   ELSE CHOOSE i \in thrown : \A j \in thrown : i <= j
           p == [i \in 1..n |->
                    IF i < stop THEN [Unbuilt EXCEPT !.stage = FirstStage(r[i])]
                    ELSE Unbuilt]
           d == IF stop = n + 1 THEN Concat([i \in 1..n |-> r[i].db]) ELSE <<>>
       IN /\ targets' = [i \in 1..n |->
                            IF i < stop
                            THEN [targets[i] EXCEPT !.cfg = r[i].target]
                            ELSE targets[i]]
          /\ built' = [i \in 1..n |->
                          IF i <= stop
                          THEN [threw |-> r[i].threw, hasAux |-> r[i].hasAux,
                                aux |-> r[i].aux, flags |-> r[i].flags,
                                db |-> r[i].db]
                          ELSE NoResult]
          /\ pipe' = p
          /\ db' = d
          /\ events' = events \o
                [i \in 1..(stop - 1) |->
                    Ev("spawn", targets[i].name, p[i].stage, 0)]
          /\ IF stop <= n
             THEN /\ build' = Rejected("Unsupported Windows target", 0)
                  /\ UNCHANGED written
             ELSE IF n = 0
             THEN /\ build' = Finish(options.compilationDatabase, d).b
                  /\ written' = Finish(options.compilationDatabase, d).w
             ELSE /\ build' = [state |-> "running", kind |-> "", code |-> 0]
                  /\ UNCHANGED written
    /\ UNCHANGED <<host, io, napi, cache, given, options, run, fetch, hist>>

\* proc.ts lines 23-29 and index.ts lines 248, 341, 389-399: the running
\* process of target i exits; its chain spawns the next process, resolves or
\* rejects, and build() continues when Promise.all settles
ProcExit(i, code) ==
    /\ i \in 1..Len(pipe)
    /\ pipe[i].stage \in {"aux", "main"}
    /\ LET stage == pipe[i].stage
           next == NextStage(stage, code)
           p == [pipe EXCEPT ![i] = [stage |-> next, code |-> code]]
       IN /\ pipe' = p
          /\ events' = Append(events, Ev("exit", targets[i].name, stage, code))
                       \o (IF next \in {"aux", "main"}
                           THEN <<Ev("spawn", targets[i].name, next, 0)>>
                           ELSE <<>>)
          /\ IF next = "failed"
             THEN /\ build' = RejectIf("running", "exit", code)
                  /\ UNCHANGED written
             ELSE IF build.state = "running" /\ AllDone(p)
             THEN /\ build' = Finish(options.compilationDatabase, db).b
                  /\ written' = Finish(options.compilationDatabase, db).w
             ELSE UNCHANGED <<build, written>>
    /\ UNCHANGED <<host, io, napi, cache, given, targets, options, run, fetch,
                   built, db, hist>>

\* index.ts line 398: fs.writeFile settles
WriteDone(ok) ==
    /\ build.state = "writing"
    /\ build' = IF ok THEN [state |-> "resolved", kind |-> "", code |-> 0]
                ELSE Rejected("writeFile", 0)
    /\ events' = Append(events, Ev("write", "build", written[1].path, 0))
    /\ UNCHANGED <<host, io, napi, cache, given, targets, options, run, fetch,
                   pipe, built, db, written, hist>>

Next ==
    \/ Build
    \/ \E w \in Who : Stat(w)
    \/ \E w \in Who, ok \in BOOLEAN : Response(w, ok)
    \/ \E w \in Who : Mkdir(w)
    \/ \E w \in Who, code \in ExitCodes, partial \in BOOLEAN :
            TarExit(w, code, partial)
    \/ Synthesize
    \/ \E i \in 1..Len(pipe), code \in ExitCodes : ProcExit(i, code)
    \/ \E ok \in BOOLEAN : WriteDone(ok)

Spec == Init /\ [][Next]_vars

\* ------------------------------------------------------------------------
\* SpecSynth: buildOne over a wide range of target configurations, with a
\* warm cache
\* ------------------------------------------------------------------------
SynthTriples ==
    {Undefined, "x86_64-linux-gnu", "aarch64-macos", "x86_64-windows",
     "aarch64-windows", "i686-windows-gnu", "riscv64-windows"}

Plain == Base
Rich == [Base EXCEPT !.include = <<"dir">>, !.libraries = <<"lib">>,
                     !.librariesSearch = <<"ldir">>, !.cpu = "baseline",
                     !.rpath = <<"runtime">>, !.cflags = <<"-Wall">>,
                     !.verbose = TRUE,
                     !.defines = <<[n |-> "NDEBUG", v |-> BoolV(TRUE)],
                                   [n |-> "REV", v |-> NumV(4)],
                                   [n |-> "TEST_VALUE", v |-> StrV("baz")],
                                   [n |-> "OFF", v |-> BoolV(FALSE)]>>]
Versioned == [Base EXCEPT !.glibc = "2.17", !.napiVersion = 8,
                          !.frameworks = <<"CoreFoundation">>,
                          !.frameworksSearch = <<"fdir">>,
                          !.defines = <<[n |-> "NAPI_VERSION", v |-> NumV(9)]>>]

SynthConfigs ==
    { [x EXCEPT !.target = t, !.type = ty, !.mode = m, !.std = se[1],
                !.exceptions = se[2], !.sources = src] :
        x \in {Plain, Rich, Versioned},
        t \in SynthTriples,
        ty \in {Undefined, "bin", "shared", "static"},
        m \in {Undefined, "debug", "fast", "small"},
        se \in {<<Undefined, TRUE>>, <<"c++20", FALSE>>, <<"c11", TRUE>>},
        src \in {<<"a.cc">>, <<"a.cc", "b.cc">>} }

SynthHosts == { [platform |-> "linux", arch |-> "x64"],
                [platform |-> "darwin", arch |-> "arm64"],
                [platform |-> "win32", arch |-> "x64"] }

SynthInit ==
    /\ \E c \in SynthConfigs : Fresh(<<E("t", c)>>)
    /\ host \in SynthHosts
    /\ targets[1].cfg.target # Undefined => host.platform = "linux"
    /\ napi \in {Undefined, "/napi/include"}
    /\ napi # Undefined => targets[1].cfg.include # <<>>
    /\ cache = [zig |-> TRUE, node |-> TRUE]
    /\ options = [compilationDatabase |-> CdbFalse]
    /\ hist = [cacheAtStart |-> cache, prev |-> "idle"]

SynthNext ==
    \/ Build
    \/ \E w \in Who : Stat(w)
    \/ Synthesize
    \/ \E i \in 1..Len(pipe), code \in ExitCodes : ProcExit(i, code)

SpecSynth == SynthInit /\ [][SynthNext]_vars

\* ------------------------------------------------------------------------
\* SpecDb: two targets whose source lists overlap, database requested
\* ------------------------------------------------------------------------
Files == {"a.cc", "b.cc", "c.cc"}

SourceLists ==
    UNION {[1..n -> Files] : n \in 1..MaxSources}

DbInit ==
    /\ \E s1 \in SourceLists, s2 \in SourceLists, out \in {"x.node", "y.node"} :
          Fresh(<<E("a", [TLinux EXCEPT !.sources = s1]),
                  E("b", [TLinux EXCEPT !.sources = s2, !.output = out])>>)
    /\ host = [platform |-> "linux", arch |-> "x64"]
    /\ napi = Undefined
    /\ cache = [zig |-> TRUE, node |-> TRUE]
    /\ options = [compilationDatabase |-> CdbTrue]
    /\ hist = [cacheAtStart |-> cache, prev |-> "idle"]

DbNext ==
    \/ Build
    \/ \E w \in Who : Stat(w)
    \/ Synthesize
    \/ \E i \in 1..Len(pipe), code \in ExitCodes : ProcExit(i, code)
    \/ \E ok \in BOOLEAN : WriteDone(ok)

SpecDb == DbInit /\ [][DbNext]_vars

\* ------------------------------------------------------------------------
\* Properties
\* ------------------------------------------------------------------------
Range(s) == {s[i] : i \in DOMAIN s}
StartsWith(s, p) == Len(s) >= Len(p) /\ SubSeq(s, 1, Len(p)) = p
IndexOf(name) == CHOOSE i \in 1..Len(targets) : targets[i].name = name
IsTargetEvent(ev) == ev.who \notin Who /\ ev.who # "build"
Synthesized(i) == pipe[i].stage # "unbuilt"

\* C1: a target that has an import-library step spawns its main compile only
\* after that step's process was spawned and has exited
C1_AuxPrecedesMain ==
    \A k \in 1..Len(events) :
        (/\ IsTargetEvent(events[k])
         /\ events[k].e = "spawn"
         /\ events[k].arg = "main"
         /\ built[IndexOf(events[k].who)].hasAux)
        => \E j \in 1..(k - 1), s \in 1..(k - 1) :
              /\ s < j
              /\ events[s] = Ev("spawn", events[k].who, "aux", 0)
              /\ events[j].e = "exit"
              /\ events[j].who = events[k].who
              /\ events[j].arg = "aux"

C1_Witness ==
    \E i \in 1..Len(pipe), j \in 1..Len(pipe) :
        /\ i # j
        /\ built[i].hasAux
        /\ pipe[i].stage = "main"
        /\ pipe[j].stage = "main"

\* the exits of target processes with a code other than 0, in order
Failures == {k \in 1..Len(events) :
                /\ IsTargetEvent(events[k])
                /\ events[k].e = "exit"
                /\ events[k].code # 0}
FirstFailure == CHOOSE k \in Failures : \A j \in Failures : k <= j

AllExitedZero ==
    \A k \in 1..Len(events) :
        (IsTargetEvent(events[k]) /\ events[k].e = "spawn")
        => \E j \in (k + 1)..Len(events) :
              events[j] = Ev("exit", events[k].who, events[k].arg, 0)

\* C2 as stated: build() is rejected with the exit code of every target
\* process that exited with a code other than 0, and resolves only if every
\* spawned process exited with 0
C2_Original ==
    /\ \A k \in Failures :
          /\ build.state = "rejected"
          /\ build.kind = "exit"
          /\ build.code = events[k].code
    /\ build.state = "resolved" => AllExitedZero

\* C2 amended: build() is rejected as soon as a target process has exited
\* with a code other than 0 (null included); a rejection caused by an exit
\* carries the code of the first target process that failed, the only other
\* rejection then possible being the earlier synthesis error; build()
\* resolves only if every spawned process exited with 0
C2_FirstFailure ==
    /\ Failures # {} =>
          /\ build.state = "rejected"
          /\ build.kind \in {"exit", "Unsupported Windows target"}
          /\ build.kind = "exit" => build.code = events[FirstFailure].code
    /\ build.state \in {"writing", "resolved"} => AllExitedZero

C2_Witness ==
    /\ Cardinality(Failures) = 2
    /\ \E k \in Failures : events[k].code # events[FirstFailure].code
    /\ build.state = "rejected"
    /\ build.code = events[FirstFailure].code
    /\ events[FirstFailure].code = NullCode

\* C3 as stated: with the database requested, a build() that fails because
\* a target's pipeline failed has written the database
C3_WrittenOnFailure ==
    (/\ DbName(options.compilationDatabase) # ""
     /\ \E i \in 1..Len(pipe) : pipe[i].stage = "failed"
     /\ build.state = "rejected")
    => written # <<>>

\* C4: a target process is spawned only when both acquisitions completed;
\* once an acquisition failed no target process is spawned in that call
C4_DepsBeforeTargets ==
    /\ (\E i \in 1..Len(pipe) : Synthesized(i))
          => fetch["node"].pc = "done" /\ fetch["zig"].pc = "done"
    /\ (\E k \in 1..Len(events) : IsTargetEvent(events[k]))
          => fetch["node"].pc = "done" /\ fetch["zig"].pc = "done"
    /\ (\E w \in Who : fetch[w].pc = "failed")
          => /\ \A i \in 1..Len(pipe) : ~Synthesized(i)
             /\ \A k \in 1..Len(events) : ~IsTargetEvent(events[k])

C4_Witness ==
    /\ \E i \in 1..Len(pipe) : pipe[i].stage = "main"
    /\ \A w \in Who : Ev("exit", w, "tar", 0) \in Range(events)

C4_WitnessFailed ==
    /\ fetch["zig"].pc = "failed"
    /\ fetch["node"].pc = "done"
    /\ build.state = "rejected"

\* C5: with both cache paths present when build() begins, the call issues
\* no HTTP request and spawns no extraction; so does a call that follows a
\* call that resolved
C5_CacheIdempotence ==
    LET quiet == \A k \in 1..Len(events) :
                    /\ events[k].e # "http"
                    /\ events[k].arg # "tar"
    IN /\ (hist.cacheAtStart.zig /\ hist.cacheAtStart.node) => quiet
       /\ (run >= 2 /\ hist.prev = "resolved") => quiet

C5_Witness ==
    /\ run = 2
    /\ hist.prev = "resolved"
    /\ build.state = "resolved"
    /\ \E i \in 1..Len(pipe) : pipe[i].stage = "done"

\* C6 as stated: on a host without a download table entry the acquisition
\* fails with the unsupported-platform error and no HTTP request is issued,
\* whatever the cache holds
C6_Original ==
    (ZigUrl(host) = Undefined /\ run >= 1)
    => /\ \A k \in 1..Len(events) : events[k].e # "http"
       /\ build.state \in {"fetching", "rejected"}
       /\ build.state = "rejected" => build.kind = "unsupported platform"

\* C6 amended: on a host without a download table entry, and with the
\* toolchain binary not in the cache, the toolchain acquisition fails with
\* the unsupported-platform error without issuing an HTTP request or
\* spawning an extraction, and build() never gets past the acquisition; the
\* concurrent header acquisition may still issue its own request
C6_UnsupportedPlatform ==
    (ZigUrl(host) = Undefined /\ run >= 1 /\ ~hist.cacheAtStart.zig)
    => /\ \A k \in 1..Len(events) : events[k].who # "zig"
       /\ fetch["zig"].pc \in {"stat", "failed"}
       /\ fetch["zig"].pc = "failed" => fetch["zig"].err = "unsupported platform"
       /\ build.state \in {"fetching", "rejected"}
       /\ \A i \in 1..Len(pipe) : ~Synthesized(i)

C6_Witness ==
    /\ ZigUrl(host) = Undefined
    /\ fetch["zig"] = [pc |-> "failed", err |-> "unsupported platform"]
    /\ build = Rejected("unsupported platform", 0)
    /\ Ev("http", "node", HeadersUrl, 0) \in Range(events)

FirstIn(s, x) == CHOOSE i \in 1..Len(s) : s[i] = x /\ \A j \in 1..(i - 1) : s[j] # x

\* C7: the written database has no two equal entries, holds exactly the
\* entries produced by the targets, and lists them in the order of their
\* first occurrence in the per-target lists concatenated in target order
C7_Dedup ==
    written # <<>> =>
        LET u == written[1].content
            all == Concat([i \in 1..Len(built) |-> built[i].db])
        IN /\ \A i \in 1..Len(u), j \in 1..Len(u) : u[i] = u[j] => i = j
           /\ Range(u) = Range(all)
           /\ \A i \in 1..Len(u), j \in 1..Len(u) :
                 i < j => FirstIn(all, u[i]) < FirstIn(all, u[j])

C7_Witness ==
    /\ written # <<>>
    /\ Len(written[1].content) = 3
    /\ Len(db) = 4
    /\ db[1] = db[3]
    /\ db[4] \notin {db[1], db[2]}

\* C8 as stated: the entries of a synthesized target are exactly one per
\* source file the caller listed, in order, in the working directory
C8_OnePerSource ==
    \A i \in 1..Len(pipe) :
        (Synthesized(i) /\ run = 1)
        => /\ [k \in 1..Len(built[i].db) |-> built[i].db[k].file]
                 = given[i].cfg.sources
           /\ \A k \in 1..Len(built[i].db) : built[i].db[k].directory = Cwd

LinkerToken(a) ==
    \/ a \in {"-shared", "-static", "-fPIC", "-O2", "-Os", "-o", "-target"}
    \/ StartsWith(a, "-l")
    \/ StartsWith(a, "-L")
    \/ StartsWith(a, "-Wl,-rpath")

\* C9 as stated: the arguments of every entry hold no output-kind,
\* optimisation, -o/-target or linker token and no source file, and hold the
\* -std, -I, -D and -fno-exceptions tokens of the target
C9_CompilerOnly ==
    \A i \in 1..Len(pipe) :
        (Synthesized(i) /\ run = 1)
        => \A k \in 1..Len(built[i].db) :
              LET args == Range(built[i].db[k].arguments)
                  cfg == given[i].cfg
              IN /\ \A a \in args : ~LinkerToken(a)
                 /\ \A f \in Range(cfg.sources) : f \notin args
                 /\ Truthy(cfg.std) => ("-std=" \o cfg.std) \in args
                 /\ ("-I" \o IncludePath) \in args
                 /\ \A d \in Range(cfg.include) : ("-I" \o d) \in args
                 /\ cfg.exceptions = FALSE => "-fno-exceptions" \in args
                 /\ \A d \in Range(cfg.defines) :
                       (d.v.t = "string") => ("-D" \o d.n \o "=" \o d.v.s) \in args

\* the platform family a configuration is built for
Family(cfg, h) ==
    CASE cfg.target \in {"x86_64-windows", "aarch64-windows",
                         "i686-windows-gnu", "riscv64-windows"} -> "windows"
      [] cfg.target = "aarch64-macos" -> "macos"
      [] cfg.target = Undefined /\ h.platform = "win32" -> "windows"
      [] cfg.target = Undefined /\ h.platform = "darwin" -> "macos"
      [] OTHER -> "other"

IsShared(cfg) == cfg.type \in {Undefined, "shared"}
HasPicShared(r) == "-fPIC" \in Range(r.flags) /\ "-shared" \in Range(r.flags)
HasDynamicLookup(r) == "-Wl,-undefined,dynamic_lookup" \in Range(r.flags)
One(b) == IF b THEN 1 ELSE 0

\* C10 as stated: a shared target selects exactly one of the PIC+shared
\* flags, the dynamic_lookup flag and the import-library step
C10_Original ==
    \A i \in 1..Len(pipe) :
        (Synthesized(i) /\ IsShared(given[i].cfg))
        => One(HasPicShared(built[i])) + One(HasDynamicLookup(built[i]))
              + One(built[i].hasAux) = 1

\* C10 amended: a shared target whose synthesis succeeds always carries the
\* -fPIC and -shared flags, and on top of them exactly the treatment of its
\* effective platform: the import-library step on Windows, the
\* dynamic_lookup flag on macOS, neither elsewhere; never both
C10_SharedTreatment ==
    \A i \in 1..Len(pipe) :
        (Synthesized(i) /\ IsShared(given[i].cfg))
        => LET family == Family(given[i].cfg, host)
           IN /\ HasPicShared(built[i])
              /\ built[i].hasAux <=> family = "windows"
              /\ HasDynamicLookup(built[i]) <=> family = "macos"
              /\ pipe[i].stage = "aux" => family = "windows"
              /\ ~(built[i].hasAux /\ HasDynamicLookup(built[i]))

C10_Witness ==
    /\ Synthesized(1)
    /\ given[1].cfg.target = Undefined
    /\ host.platform = "win32"
    /\ built[1].hasAux
    /\ HasPicShared(built[1])
    /\ pipe[1].stage = "main"

\* C11 as stated: a platform-conditional field contributes to the argument
\* list only when the triple family matches: the glibc suffix only on a GNU
\* libc triple, framework tokens only for macOS, rpath tokens only off
\* Windows
C11_PlatformFields ==
    \A i \in 1..Len(pipe) :
        Synthesized(i)
        => LET cfg == given[i].cfg
               family == Family(cfg, host)
               flags == Range(built[i].flags)
           IN /\ (Truthy(cfg.glibc) /\ cfg.target # "x86_64-linux-gnu")
                    => \A a \in flags : ~Includes(a, "." \o cfg.glibc)
              /\ family # "macos"
                    => /\ \A f \in Range(cfg.frameworks) : ("-" \o f) \notin flags
                       /\ \A f \in Range(cfg.frameworksSearch) :
                             ("-F" \o f) \notin flags
              /\ family = "windows"
                    => \A a \in flags : ~StartsWith(a, "-Wl,-rpath")

\* ------------------------------------------------------------------------
\* SpecNapi: the Node-API version define against user defines of all kinds
\* ------------------------------------------------------------------------
NapiDefines ==
    { <<>>,
      <<[n |-> "NAPI_VERSION", v |-> NumV(9)]>>,
      <<[n |-> "NDEBUG", v |-> BoolV(TRUE)],
        [n |-> "NAPI_VERSION", v |-> StrV("experimental")]>>,
      <<[n |-> "NAPI_VERSION", v |-> BoolV(TRUE)],
        [n |-> "REV", v |-> NumV(4)]>>,
      <<[n |-> "NAPI_VERSION", v |-> BoolV(FALSE)]>>,
      <<[n |-> "NDEBUG", v |-> BoolV(TRUE)]>> }

NapiInit ==
    /\ \E d \in NapiDefines, nv \in {0, 8}, ex \in BOOLEAN,
          t \in {Undefined, "x86_64-linux-gnu", "x86_64-windows"} :
          Fresh(<<E("t", [Base EXCEPT !.defines = d, !.napiVersion = nv,
                                      !.exceptions = ex, !.target = t])>>)
    /\ host = [platform |-> "linux", arch |-> "x64"]
    /\ napi \in {Undefined, "/napi/include"}
    /\ cache = [zig |-> TRUE, node |-> TRUE]
    /\ options = [compilationDatabase |-> CdbFalse]
    /\ hist = [cacheAtStart |-> cache, prev |-> "idle"]

SpecNapi == NapiInit /\ [][SynthNext]_vars

\* the positions of the NAPI_VERSION define tokens of an argument list
NapiTokens(flags) ==
    {k \in 1..Len(flags) :
        flags[k] = "-DNAPI_VERSION" \/ StartsWith(flags[k], "-DNAPI_VERSION=")}

\* the define token a value of the defines record stands for
TokenOf(name, v) ==
    CASE v.t = "boolean" -> "-D" \o name
      [] v.t = "string" -> "-D" \o name \o "=" \o v.s
      [] v.t = "number" -> "-D" \o name \o "=" \o ToString(v.n)

UserNapi(cfg) == {k \in 1..Len(cfg.defines) : cfg.defines[k].n = "NAPI_VERSION"}

\* C12 as stated: with napiVersion and a user NAPI_VERSION define there is
\* exactly one NAPI_VERSION token and it carries the user's value; with
\* napiVersion alone there is exactly one token -DNAPI_VERSION=<napiVersion>
C12_Original ==
    \A i \in 1..Len(pipe) :
        (Synthesized(i) /\ given[i].cfg.napiVersion # 0)
        => LET cfg == given[i].cfg
               flags == built[i].flags
           IN /\ Cardinality(NapiTokens(flags)) = 1
              /\ \A k \in NapiTokens(flags) :
                    IF UserNapi(cfg) = {}
                    THEN flags[k] = "-DNAPI_VERSION=" \o ToString(cfg.napiVersion)
                    ELSE \A u \in UserNapi(cfg) :
                            flags[k] = TokenOf("NAPI_VERSION", cfg.defines[u].v)

\* C12 amended: as stated when the user's value is true, a string or a
\* number; a user value of false leaves no NAPI_VERSION token at all, the
\* napiVersion value being dropped with it
C12_UserDefineWins ==
    \A i \in 1..Len(pipe) :
        (Synthesized(i) /\ given[i].cfg.napiVersion # 0)
        => LET cfg == given[i].cfg
               flags == built[i].flags
               off == \E u \in UserNapi(cfg) :
                         cfg.defines[u].v = BoolV(FALSE)
           IN /\ Cardinality(NapiTokens(flags)) = IF off THEN 0 ELSE 1
              /\ \A k \in NapiTokens(flags) :
                    IF UserNapi(cfg) = {}
                    THEN flags[k] = "-DNAPI_VERSION=" \o ToString(cfg.napiVersion)
                    ELSE \A u \in UserNapi(cfg) :
                            flags[k] = TokenOf("NAPI_VERSION", cfg.defines[u].v)

C12_Witness ==
    /\ Synthesized(1)
    /\ given[1].cfg.napiVersion = 8
    /\ given[1].cfg.defines = <<[n |-> "NAPI_VERSION", v |-> NumV(9)]>>
    /\ Cardinality(NapiTokens(built[1].flags)) = 1
    /\ "-DNAPI_VERSION=9" \in Range(built[1].flags)
    /\ run = 2

\* C14 as stated: synthesis leaves the caller's target objects as they were
\* passed: the same sources list and the same defines
C14_NoMutation ==
    \A i \in 1..Len(targets) :
        /\ targets[i].cfg.sources = given[i].cfg.sources
        /\ targets[i].cfg.defines = given[i].cfg.defines

WindowsTriples ==
    {"x86_64-windows", "aarch64-windows", "i686-windows-gnu", "riscv64-windows"}

\* the machine name dlltool is to be given for a triple
MachineName(t) ==
    CASE t = "x86_64-windows" -> "i386:x86-64"
      [] t = "aarch64-windows" -> "arm64"
      [] t = "i686-windows-gnu" -> "i386"

SynthesisRan == build.state \notin {"idle", "fetching"}

\* C15 as stated: a Windows triple with an unrecognized first segment makes
\* the build fail with the unsupported-target error with no process spawned
\* for that target; a recognized one passes its machine name to dlltool
C15_Original ==
    \A i \in 1..Len(targets) :
        LET cfg == given[i].cfg
        IN /\ (cfg.target = "riscv64-windows" /\ SynthesisRan)
                 => /\ build = Rejected("Unsupported Windows target", 0)
                    /\ ~Synthesized(i)
                    /\ \A k \in 1..Len(events) : events[k].who # targets[i].name
           /\ (cfg.target \in WindowsTriples \ {"riscv64-windows"}
                 /\ Synthesized(i) /\ built[i].hasAux)
                 => SubSeq(built[i].aux, Len(built[i].aux) - 1, Len(built[i].aux))
                       = <<"-m", MachineName(cfg.target)>>

\* C15 amended: the same, for targets of output kind shared (explicit or by
\* default); a static library or executable for such a triple is compiled
\* without the import-library step and without the error
C15_UnsupportedWindows ==
    \A i \in 1..Len(targets) :
        LET cfg == given[i].cfg
        IN /\ (cfg.target = "riscv64-windows" /\ IsShared(cfg) /\ SynthesisRan)
                 => /\ build = Rejected("Unsupported Windows target", 0)
                    /\ ~Synthesized(i)
                    /\ \A k \in 1..Len(events) : events[k].who # targets[i].name
           /\ (cfg.target = "riscv64-windows" /\ ~IsShared(cfg) /\ Synthesized(i))
                 => ~built[i].hasAux /\ pipe[i].stage # "aux"
           /\ (cfg.target \in WindowsTriples \ {"riscv64-windows"}
                 /\ Synthesized(i) /\ IsShared(cfg))
                 => /\ built[i].hasAux
                    /\ SubSeq(built[i].aux, Len(built[i].aux) - 1,
                              Len(built[i].aux))
                          = <<"-m", MachineName(cfg.target)>>

C15_Witness ==
    /\ given[1].cfg.target = "riscv64-windows"
    /\ IsShared(given[1].cfg)
    /\ build = Rejected("Unsupported Windows target", 0)
    /\ events = <<>>
    /\ run = 1

C15_WitnessMachine ==
    /\ given[1].cfg.target = "i686-windows-gnu"
    /\ pipe[1].stage = "aux"
    /\ "i386" \in Range(built[1].aux)

\* the place of a token in the order C17 fixes; 0 for tokens it leaves free
Rank(a, cfg) ==
    CASE a = "-target" -> 1
      [] a \in {"-shared", "-static"} -> 2
      [] a \in {"-O2", "-Os"} -> 3
      [] StartsWith(a, "-std=") \/ a = "-fno-exceptions" -> 4
      [] StartsWith(a, "-I") -> 5
      [] StartsWith(a, "-l") \/ StartsWith(a, "-L") -> 6
      [] StartsWith(a, "-D") -> 7
      [] a = "-v" -> 8
      [] a \in Range(cfg.cflags) -> 9
      [] a \in Range(cfg.sources) -> 10
      [] OTHER -> 0

IsIncludeToken(a) == StartsWith(a, "-I")

Ordered(flags, cfg) ==
    /\ \A p \in 1..Len(flags), q \in 1..Len(flags) :
          (p < q /\ Rank(flags[p], cfg) # 0 /\ Rank(flags[q], cfg) # 0)
          => Rank(flags[p], cfg) <= Rank(flags[q], cfg)
    /\ SelectSeq(flags, IsIncludeToken)
          = <<"-I" \o IncludePath>>
            \o (IF napi = Undefined THEN <<>> ELSE <<"-I" \o napi>>)
            \o [k \in 1..Len(cfg.include) |-> "-I" \o cfg.include[k]]

LastN(s, n) == SubSeq(s, Len(s) - n + 1, Len(s))

C17_WitnessWindows ==
    /\ Synthesized(1)
    /\ given[1].cfg.target = "x86_64-windows"
    /\ run = 2
    /\ LastN(built[1].flags, 3)
          = <<"a.cc", PathJoin(IncludePath, "node.lib"),
              PathJoin(IncludePath, "node.lib")>>

\* C16: the database is written at most once per call, only when it was
\* requested and every target's pipeline has completed, to the requested
\* name inside the working directory, compile_commands.json when the option
\* is the boolean true
C16_WrittenOnce ==
    /\ Len(written) <= 1
    /\ Cardinality({k \in 1..Len(events) : events[k].e = "write"}) <= 1
    /\ (\E k \in 1..Len(events) : events[k].e = "write") => written # <<>>
    /\ written # <<>>
          => /\ options.compilationDatabase # CdbFalse
             /\ \A i \in 1..Len(pipe) : pipe[i].stage = "done"
             /\ written[1].path
                   = Cwd \o "/" \o
                     (IF options.compilationDatabase = CdbTrue
                      THEN "compile_commands.json"
                      ELSE options.compilationDatabase)

C16_Witness ==
    /\ options.compilationDatabase = CdbTrue
    /\ Len(pipe) = 2
    /\ written # <<>>
    /\ written[1].path = "/w/compile_commands.json"
    /\ build.state = "resolved"
    /\ run = 2

C16_WitnessNamed ==
    /\ options.compilationDatabase = "db.json"
    /\ Len(pipe) = 2
    /\ written # <<>>
    /\ written[1].path = "/w/db.json"
    /\ events[Len(events)].e = "write"

\* the events that report a failed import-library process of target i
AuxFailures(i) ==
    {k \in 1..Len(events) :
        /\ events[k].e = "exit"
        /\ events[k].who = targets[i].name
        /\ events[k].arg = "aux"
        /\ events[k].code # 0}

\* C19: after a target's import-library process exited with a non-zero or
\* null code, that target's compile is never spawned and its pipeline has
\* failed with that code; the other targets' pipelines go on: theirs fail
\* only by an exit of their own, and a clean exit of their import-library
\* process is still followed by the spawn of their compile
C19_AuxFailure ==
    \A i \in 1..Len(pipe) : \A k \in AuxFailures(i) :
        /\ pipe[i] = [stage |-> "failed", code |-> events[k].code]
        /\ \A m \in 1..Len(events) :
              ~(/\ events[m].e = "spawn"
                /\ events[m].who = targets[i].name
                /\ events[m].arg = "main")
        /\ \A j \in {t \in 1..Len(pipe) : t # i /\ Synthesized(t)} :
              /\ pipe[j].stage = "failed"
                    => \E m \in 1..Len(events) :
                          /\ events[m].e = "exit"
                          /\ events[m].who = targets[j].name
                          /\ events[m].code = pipe[j].code
                          /\ events[m].code # 0
              /\ \A m \in (k + 1)..Len(events) :
                    events[m] = Ev("exit", targets[j].name, "aux", 0)
                    => /\ m < Len(events)
                       /\ events[m + 1] = Ev("spawn", targets[j].name, "main", 0)

C19_Witness ==
    /\ Len(pipe) = 2
    /\ AuxFailures(1) # {}
    /\ pipe[1] = [stage |-> "failed", code |-> NullCode]
    /\ pipe[2].stage = "done"
    /\ \E k \in AuxFailures(1) :
          /\ k + 2 <= Len(events)
          /\ events[k + 1] = Ev("exit", targets[2].name, "aux", 0)
          /\ events[k + 2] = Ev("spawn", targets[2].name, "main", 0)
    /\ build = Rejected("exit", NullCode)

\* ------------------------------------------------------------------------
\* SpecExec: one exec() call, the events of its process (proc.ts 16-47)
\* ------------------------------------------------------------------------
MaxUnits == 2

\* what a process can write: up to MaxUnits of a letter, a newline or the
\* two-byte character U+00E9
Units(letter) == {<<letter>>, <<"\n">>, <<"C3", "A9">>}

Contents(letter) ==
    UNION {{Concat(u) : u \in [1..n -> Units(letter)]} : n \in 0..MaxUnits}

ExecInit ==
    /\ host = [platform |-> "linux", arch |-> "x64"]
    /\ napi = Undefined
    /\ cache = [zig |-> TRUE, node |-> TRUE]
    /\ options = [compilationDatabase |-> CdbFalse]
    /\ given = <<>>
    /\ targets = <<>>
    /\ run = 0
    /\ build = Idle
    /\ fetch = [w \in Who |-> [pc |-> "idle", err |-> ""]]
    /\ pipe = <<>>
    /\ built = <<>>
    /\ db = <<>>
    /\ events = <<>>
    /\ written = <<>>
    /\ hist = [cacheAtStart |-> cache, prev |-> "idle"]
    /\ \E out \in Contents("a"), err \in Contents("b") :
          io = [content |-> [s \in Streams |->
                                IF s = "stdout" THEN out ELSE err],
                pending |-> [s \in Streams |->
                                IF s = "stdout" THEN out ELSE err],
                buffer |-> [s \in Streams |-> <<>>],
                ended |-> [s \in Streams |-> FALSE],
                log |-> <<>>,
                promise |-> "pending", code |-> 0]

Logged(s, lines) == [k \in 1..Len(lines) |-> [stream |-> s, msg |-> lines[k]]]

\* proc.ts lines 36-43: the next n bytes of stream s arrive as one chunk
ExecData(s, n) ==
    /\ io.promise # "none"
    /\ ~io.ended[s]
    /\ n \in 1..Len(io.pending[s])
    /\ LET r == OnData(io.buffer[s], SubSeq(io.pending[s], 1, n))
       IN io' = [io EXCEPT
                    !.pending[s] = SubSeq(@, n + 1, Len(@)),
                    !.buffer[s] = r.buffer,
                    !.log = @ \o Logged(s, r.logged)]
    /\ UNCHANGED <<host, napi, cache, given, targets, options, run, build,
                   fetch, pipe, built, db, events, written, hist>>

\* proc.ts line 46: stream s ends after its last chunk
ExecEnd(s) ==
    /\ io.promise # "none"
    /\ ~io.ended[s]
    /\ io.pending[s] = <<>>
    /\ io' = [io EXCEPT !.ended[s] = TRUE,
                        !.log = @ \o Logged(s, <<OnEnd(io.buffer[s])>>)]
    /\ UNCHANGED <<host, napi, cache, given, targets, options, run, build,
                   fetch, pipe, built, db, events, written, hist>>

\* proc.ts lines 23-29: the "exit" event settles the promise; the streams
\* of the process may still hold data at that time
ExecExit(code) ==
    /\ io.promise = "pending"
    /\ io' = [io EXCEPT !.promise = IF Resolves(code) THEN "resolved"
                                    ELSE "rejected",
                        !.code = code]
    /\ UNCHANGED <<host, napi, cache, given, targets, options, run, build,
                   fetch, pipe, built, db, events, written, hist>>

ExecNext ==
    \/ \E s \in Streams, n \in 1..(2 * MaxUnits) : ExecData(s, n)
    \/ \E s \in Streams : ExecEnd(s)
    \/ \E code \in ExitCodes : ExecExit(code)

SpecExec == ExecInit /\ [][ExecNext]_vars

\* the messages the logger received from stream s, in order
Messages(s) ==
    LET IsOf(m) == m.stream = s
        ms == SelectSeq(io.log, IsOf)
    IN [k \in 1..Len(ms) |-> ms[k].msg]

\* what of stream s has arrived so far
Delivered(s) ==
    SubSeq(io.content[s], 1, Len(io.content[s]) - Len(io.pending[s]))

\* C13 as stated: once exec's promise has rejected, all output of the
\* process has been delivered to the logger: no chunk is outstanding and
\* the trailing content of both streams has been flushed
C13_OutputBeforeRejection ==
    io.promise = "rejected"
    => \A s \in Streams : io.pending[s] = <<>> /\ io.ended[s]

\* C18 as stated: whatever the chunking, the messages logged for a stream
\* are the lines of what has arrived of its content, the unterminated
\* remainder being held back until the stream ends and logged once then
C18_LineBuffering ==
    \A s \in Streams :
        LET lines == Split(Decode(Delivered(s)))
        IN Messages(s) = IF io.ended[s] THEN lines
                         ELSE SubSeq(lines, 1, Len(lines) - 1)

\* the same for content made of single-byte characters only
C18_SingleByteOnly ==
    \A s \in Streams :
        (\A k \in 1..Len(io.content[s]) : io.content[s][k] \notin {"C3", "A9"})
        => LET lines == Split(Decode(Delivered(s)))
           IN Messages(s) = IF io.ended[s] THEN lines
                            ELSE SubSeq(lines, 1, Len(lines) - 1)

====
